---- MODULE Spec2Model ----
(***************************************************************************)
(* AceAuth session validation engine (src/src/adapters/MongoStore.ts,      *)
(* lines 64-275) running against MemoryStore                               *)
(* (src/src/adapters/MemoryStore.ts).                                      *)
(*                                                                         *)
(* Time is Date.now() in milliseconds.  Every call of the engine is split  *)
(* at its awaits: a store method of MemoryStore runs synchronously when it *)
(* is called (an async function without awaits), and the caller resumes in *)
(* a later step.  Spec runs every call to completion in one step; ConcSpec *)
(* keeps up to MaxTasks calls in flight and lets the clock advance between *)
(* the steps of a call.                                                    *)
(***************************************************************************)
EXTENDS Integers, Sequences, FiniteSets, TLC

VARIABLES now, store, cache, lastTouch, nextSid, tasks, res, hist, mailer, otp

vars == <<now, store, cache, lastTouch, nextSid, tasks, res, hist, mailer, otp>>

\* The mail transport and the passcode records of the store
otpVars == <<mailer, otp>>

----------------------------------------------------------------------------
(* Bounds of the model *)

MaxSessions == 2
MaxTicks == 3
MaxTasks == 2
ConcSessions == 1

(* Program constants and the configuration the engine is constructed with *)

ThrottleMs == 10000
CacheTTL == 5000
SessionDuration == 10
TokenDuration == 5

TickMs == ThrottleMs \div 2
StartMs == 4 * TickMs
EndMs == StartMs + MaxTicks * TickMs

Sids == 1..MaxSessions

----------------------------------------------------------------------------
(* JavaScript values of a principal's id field *)

Str(s) == [typ |-> "string", val |-> s]
Num(s) == [typ |-> "number", val |-> s]
Undefined == [typ |-> "undefined", val |-> "undefined"]

\* String(x): the decimal text of a number, the string itself
String(x) == [typ |-> "string", val |-> x.val]

\* x === y
StrictEq(x, y) == x.typ = y.typ /\ x.val = y.val

Ids == {Str("alice"), Num("7")}
Reqs == {"req"}

\* req?.ip || req?.socket?.remoteAddress || 'unknown', and the user agent
DeviceInfo(req, t) ==
  [ip |-> IF req = "req" THEN "10.0.0.1" ELSE "unknown",
   userAgent |-> IF req = "req" THEN "Chrome" ELSE "unknown",
   loginAt |-> t]

\* { ...payload, _meta: deviceInfo }
FullPayload(id, req, t) == [id |-> id, meta |-> DeviceInfo(req, t)]

\* JSON.stringify / JSON.parse of a payload: the text keeps the typed id
\* (a key whose value is undefined is dropped, and reads back as undefined)
JSONStringify(obj) == <<"json", obj.id, obj.meta>>
JSONParse(txt) == [id |-> txt[2], meta |-> txt[3]]

----------------------------------------------------------------------------
(* MemoryStore: Map<string, {value, userId, expiresAt}> *)

Drop(f, k) == [x \in DOMAIN f \ {k} |-> f[x]]
Put(f, k, v) == (k :> v) @@ f

\* parsed.id || parsed._id || 'unknown'
IndexKey(value) ==
  LET parsed == JSONParse(value)
  IN IF parsed.id.typ = "undefined" THEN Str("unknown") ELSE parsed.id

MemSet(st, key, value, ttlSeconds, t) ==
  Put(st, key, [value |-> value, userId |-> IndexKey(value),
                expiresAt |-> t + ttlSeconds * 1000])

\* get: an expired record is deleted and reads as null
MemGet(st, key, t) ==
  IF key \notin DOMAIN st THEN [st |-> st, found |-> FALSE, value |-> <<>>]
  ELSE IF t > st[key].expiresAt
       THEN [st |-> Drop(st, key), found |-> FALSE, value |-> <<>>]
       ELSE [st |-> st, found |-> TRUE, value |-> st[key].value]

MemDelete(st, key) == Drop(st, key)

\* A touch that writes a record when the map has none
MemTouchUpserts(st, key, ttlSeconds, t) ==
  IF key \in DOMAIN st
  THEN [st EXCEPT ![key].expiresAt = t + ttlSeconds * 1000]
  ELSE Put(st, key, [value |-> JSONStringify(FullPayload(Undefined, "none", t)),
                     userId |-> Str("unknown"),
                     expiresAt |-> t + ttlSeconds * 1000])

\* touch: the record's expiry is reset whenever the record is in the map
MemTouch(st, key, ttlSeconds, t) ==
  IF key \in DOMAIN st
  THEN [st EXCEPT ![key].expiresAt = t + ttlSeconds * 1000]
  ELSE st

MemMatches(st, key, userId) == StrictEq(st[key].userId, String(userId))

RECURSIVE ValuesInOrder(_, _, _)
ValuesInOrder(st, keys, k) ==
  IF k > MaxSessions THEN <<>>
  ELSE (IF k \in keys THEN <<st[k].value>> ELSE <<>>)
       \o ValuesInOrder(st, keys, k + 1)

\* findAllByUser: the owner's expired records are deleted, the others returned
\* in the Map's insertion order
MemFindAllByUser(st, userId, t) ==
  LET mine == {k \in DOMAIN st : MemMatches(st, k, userId)}
      dead == {k \in mine : t > st[k].expiresAt}
  IN [st |-> [k \in DOMAIN st \ dead |-> st[k]],
      sessions |-> ValuesInOrder(st, mine \ dead, 1)]

\* A deleteByUser that ignores the owner
MemDeleteAll(st, userId) == << >>

MemDeleteByUser(st, userId) ==
  [k \in {x \in DOMAIN st : ~MemMatches(st, x, userId)} |-> st[k]]

----------------------------------------------------------------------------
(* LRUCache({max: 10000, ttl: cacheTTL}): entries [value, start]; the       *)
(* capacity is never reached with MaxSessions sessions                      *)

\* An entry that is already stale at exactly the TTL
CacheStaleAtTTL(c, key, t) == t - c[key].start >= CacheTTL

CacheStale(c, key, t) == t - c[key].start > CacheTTL

\* get: a stale entry is deleted and reads as undefined
CacheGet(c, key, t) ==
  IF key \notin DOMAIN c THEN [c |-> c, hit |-> FALSE, value |-> <<>>]
  ELSE IF CacheStale(c, key, t)
       THEN [c |-> Drop(c, key), hit |-> FALSE, value |-> <<>>]
       ELSE [c |-> c, hit |-> TRUE, value |-> <<c[key].value>>]

CacheSet(c, key, value, t) == Put(c, key, [value |-> value, start |-> t])

CacheDelete(c, key) == Drop(c, key)

----------------------------------------------------------------------------
(* Token codec (jsonwebtoken): payload {sessionId, iat, exp}, seconds *)

Seconds(t) == t \div 1000

\* jwt.sign({sessionId}, secret, {expiresIn: tokenDuration})
signToken(sessionId, t) ==
  [sid |-> sessionId, iat |-> Seconds(t), sig |-> "good"]

\* jwt.verify: the signature is checked first, then the expiry
Verify(token, t) ==
  IF token.sig # "good" THEN "invalid"
  ELSE IF Seconds(t) >= token.iat + TokenDuration THEN "expired"
  ELSE "valid"

----------------------------------------------------------------------------
(* The engine's state as one value, and the record of one call *)

NoSid == 0

World == [store |-> store, cache |-> cache, lastTouch |-> lastTouch,
          nextSid |-> nextSid]

Core(S) == <<S.store, S.cache, S.lastTouch>>

Live(st, key, t) == key \in DOMAIN st /\ t <= st[key].expiresAt

Fresh(c, key, t) == key \in DOMAIN c /\ ~CacheStale(c, key, t)

\* What the caller of one call sees: its arguments, the store calls it made
\* and what it returned or threw
NewCall(op, sid) ==
  [op |-> op, kind |-> "returned", valid |-> FALSE, sid |-> sid,
   user |-> <<>>, token |-> <<>>, presented |-> <<>>, arg |-> <<>>,
   sessionId |-> <<>>, list |-> <<>>, gets |-> 0, touches |-> 0, failed |-> FALSE,
   wrote |-> FALSE]

NoCall == NewCall("none", NoSid)

\* A call in flight: pc names the await it is suspended at, out the outcome
\* of the store method it awaits, pre what was true when it started
Task(pc, r, rot, out, data, nowc) ==
  [pc |-> pc, r |-> r, rot |-> rot, out |-> out, data |-> data, nowc |-> nowc,
   pre |-> <<>>]

Idle == Task("idle", NoCall, FALSE, "ok", <<>>, StartMs)

Done(S, r) == [S |-> S, task |-> Task("done", r, FALSE, "ok", <<>>, StartMs)]

Await(S, pc, r, rot, out, data, nowc) ==
  [S |-> S, task |-> Task(pc, r, rot, out, data, nowc)]

----------------------------------------------------------------------------
(* AceAuth *)

\* A rotation that mints no token
rotationNoToken(S, r, sessionId, needsRefresh, user, t) ==
  Done(S, [r EXCEPT !.valid = TRUE, !.sessionId = <<sessionId>>,
                    !.user = <<user>>])

\* fetchSession step 5 and the return
rotation(S, r, sessionId, needsRefresh, user, t) ==
  Done(S, [r EXCEPT !.valid = TRUE, !.sessionId = <<sessionId>>,
                    !.user = <<user>>,
                    !.token = IF needsRefresh
                              THEN <<signToken(sessionId, t)>> ELSE <<>>])

\* A touch on every call, with no throttle
smartTouchUnthrottled(S, r, sessionId, needsRefresh, user, t, fl) ==
  IF fl
  THEN Await(S, "touch", [r EXCEPT !.touches = @ + 1, !.failed = TRUE],
             needsRefresh, "fail", <<user>>, t)
  ELSE Await([S EXCEPT !.store = MemTouch(@, sessionId, SessionDuration, t)],
             "touch", [r EXCEPT !.touches = @ + 1],
             needsRefresh, "ok", <<user>>, t)

\* fetchSession step 4: touch the store unless touched within the last 10 s
smartTouch(S, r, sessionId, needsRefresh, user, t, fl) ==
  LET last == IF sessionId \in DOMAIN S.lastTouch
              THEN S.lastTouch[sessionId] ELSE 0
  IN IF t - last > ThrottleMs
     THEN IF fl
          THEN Await(S, "touch", [r EXCEPT !.touches = @ + 1, !.failed = TRUE],
                     needsRefresh, "fail", <<user>>, t)
          ELSE Await([S EXCEPT
                        !.store = MemTouch(@, sessionId, SessionDuration, t)],
                     "touch", [r EXCEPT !.touches = @ + 1],
                     needsRefresh, "ok", <<user>>, t)
     ELSE rotation(S, r, sessionId, needsRefresh, user, t)

\* fetchSession steps 1 and 2, up to the await of store.get
fetchSession(S, r, sessionId, needsRefresh, t, fl) ==
  LET cg == CacheGet(S.cache, sessionId, t)
      S1 == [S EXCEPT !.cache = cg.c]
      mg == MemGet(S1.store, sessionId, t)
  IN IF cg.hit
     THEN smartTouch(S1, r, sessionId, needsRefresh, cg.value[1], t, fl)
     ELSE IF fl
          THEN Await(S1, "get", [r EXCEPT !.gets = @ + 1, !.failed = TRUE],
                     needsRefresh, "fail", <<>>, t)
          ELSE Await([S1 EXCEPT !.store = mg.st], "get",
                     [r EXCEPT !.gets = @ + 1], needsRefresh,
                     IF mg.found THEN "ok" ELSE "null",
                     IF mg.found THEN <<mg.value>> ELSE <<>>, t)

\* A store failure inside fetchSession: thrown to the caller when authorize
\* called fetchSession from its catch block (expired token), caught by that
\* catch block when it called it from the try block (fresh token)
storeError(S, task) ==
  IF task.rot
  THEN Done(S, [task.r EXCEPT !.kind = "threw"])
  ELSE Done(S, [task.r EXCEPT !.valid = FALSE])

\* fetchSession after store.get: null is 'Session Revoked', a record is
\* parsed and published into the cache
fetchSessionGot(S, task, t, fl) ==
  LET sessionId == task.r.sid
      user == JSONParse(task.data[1])
  IN IF task.out = "fail" THEN storeError(S, task)
     ELSE IF task.out = "null" THEN Done(S, [task.r EXCEPT !.valid = FALSE])
     ELSE smartTouch([S EXCEPT !.cache = CacheSet(@, sessionId, user, t)],
                     task.r, sessionId, task.rot, user, t, fl)

\* fetchSession after store.touch: lastTouch.set(sessionId, now)
fetchSessionTouched(S, task, t) ==
  IF task.out = "fail" THEN storeError(S, task)
  ELSE rotation([S EXCEPT !.lastTouch = Put(@, task.r.sid, task.nowc)],
                task.r, task.r.sid, task.rot, task.data[1], t)

\* An authorize that asks for a new token on both paths
authorizeAlwaysRotates(S, token, t, fl) ==
  LET r == [NewCall("authorize", token.sid)
              EXCEPT !.presented = <<token>>]
      v == Verify(token, t)
  IN IF v = "invalid" THEN Done(S, r)
     ELSE IF v = "valid" THEN fetchSession(S, r, token.sid, TRUE, t, fl)
     ELSE IF token.sid = NoSid THEN Done(S, r)
     ELSE fetchSession(S, r, token.sid, TRUE, t, fl)

\* authorize up to its first await
authorize(S, token, t, fl) ==
  LET r == [NewCall("authorize", token.sid)
              EXCEPT !.presented = <<token>>]
      v == Verify(token, t)
  IN IF v = "invalid" THEN Done(S, r)
     ELSE IF v = "valid" THEN fetchSession(S, r, token.sid, FALSE, t, fl)
     ELSE IF token.sid = NoSid THEN Done(S, r)
     ELSE fetchSession(S, r, token.sid, TRUE, t, fl)

\* A login that publishes into the cache before it awaits store.set
loginCachesFirst(S, id, req, t, fl) ==
  LET sessionId == S.nextSid
      fullPayload == FullPayload(id, req, t)
      S1 == [S EXCEPT !.nextSid = @ + 1,
                      !.cache = CacheSet(@, sessionId, fullPayload, t)]
      r == NewCall("login", sessionId)
  IN IF fl
     THEN Await(S1, "set", [r EXCEPT !.failed = TRUE], FALSE, "fail",
                <<fullPayload>>, t)
     ELSE Await([S1 EXCEPT !.store = MemSet(@, sessionId,
                                           JSONStringify(fullPayload),
                                           SessionDuration, t)],
                "set", r, FALSE, "ok", <<fullPayload>>, t)

\* login up to the await of store.set
login(S, id, req, t, fl) ==
  LET sessionId == S.nextSid
      fullPayload == FullPayload(id, req, t)
      S1 == [S EXCEPT !.nextSid = @ + 1]
      r == NewCall("login", sessionId)
  IN IF fl
     THEN Await(S1, "set", [r EXCEPT !.failed = TRUE], FALSE, "fail",
                <<fullPayload>>, t)
     ELSE Await([S1 EXCEPT !.store = MemSet(@, sessionId,
                                           JSONStringify(fullPayload),
                                           SessionDuration, t)],
                "set", r, FALSE, "ok", <<fullPayload>>, t)

\* login after store.set: publish into the cache, sign the token
loginStored(S, task, t) ==
  LET sessionId == task.r.sid
  IN IF task.out = "fail" THEN Done(S, [task.r EXCEPT !.kind = "threw"])
     ELSE Done([S EXCEPT !.cache = CacheSet(@, sessionId, task.data[1], t)],
               [task.r EXCEPT !.valid = TRUE,
                              !.token = <<signToken(sessionId, t)>>])

\* A logout that leaves the cache entry in place
logoutKeepsCache(S, sessionId, t, fl) ==
  LET S1 == [S EXCEPT !.lastTouch = Drop(@, sessionId)]
      r == NewCall("logout", sessionId)
  IN IF fl
     THEN Await(S1, "delete", [r EXCEPT !.failed = TRUE], FALSE, "fail",
                <<>>, t)
     ELSE Await([S1 EXCEPT !.store = MemDelete(@, sessionId)],
                "delete", r, FALSE, "ok", <<>>, t)

\* A logout that rejects a session it does not find in the store
logoutRejectsUnknown(S, sessionId, t, fl) ==
  LET S1 == [S EXCEPT !.cache = CacheDelete(@, sessionId),
                      !.lastTouch = Drop(@, sessionId)]
      r == NewCall("logout", sessionId)
  IN IF fl
     THEN Await(S1, "delete", [r EXCEPT !.failed = TRUE], FALSE, "fail",
                <<>>, t)
     ELSE Await([S1 EXCEPT !.store = MemDelete(@, sessionId)], "delete", r,
                FALSE, IF sessionId \in DOMAIN S.store THEN "ok" ELSE "fail",
                <<>>, t)

\* A logout that leaves the throttle entry in place
logoutKeepsThrottle(S, sessionId, t, fl) ==
  LET S1 == [S EXCEPT !.cache = CacheDelete(@, sessionId)]
      r == NewCall("logout", sessionId)
  IN IF fl
     THEN Await(S1, "delete", [r EXCEPT !.failed = TRUE], FALSE, "fail",
                <<>>, t)
     ELSE Await([S1 EXCEPT !.store = MemDelete(@, sessionId)],
                "delete", r, FALSE, "ok", <<>>, t)

\* logout up to the await of store.delete
logout(S, sessionId, t, fl) ==
  LET S1 == [S EXCEPT !.cache = CacheDelete(@, sessionId),
                      !.lastTouch = Drop(@, sessionId)]
      r == NewCall("logout", sessionId)
  IN IF fl
     THEN Await(S1, "delete", [r EXCEPT !.failed = TRUE], FALSE, "fail",
                <<>>, t)
     ELSE Await([S1 EXCEPT !.store = MemDelete(@, sessionId)],
                "delete", r, FALSE, "ok", <<>>, t)

logoutDeleted(S, task, t) ==
  IF task.out = "fail" THEN Done(S, [task.r EXCEPT !.kind = "threw"])
  ELSE Done(S, [task.r EXCEPT !.valid = TRUE])

\* logoutAll up to the await of store.deleteByUser
logoutAll(S, userId, t, fl) ==
  LET r == [NewCall("logoutAll", NoSid) EXCEPT !.arg = <<userId>>]
      st == MemDeleteByUser(S.store, userId)
  IN IF fl
     THEN Await(S, "deleteByUser", [r EXCEPT !.failed = TRUE], FALSE, "fail",
                <<>>, t)
     ELSE Await([S EXCEPT !.store = st], "deleteByUser", r, FALSE, "ok",
                <<>>, t)

logoutAllDeleted(S, task, t) ==
  IF task.out = "fail" THEN Done(S, [task.r EXCEPT !.kind = "threw"])
  ELSE Done(S, [task.r EXCEPT !.valid = TRUE])

\* One entry of getActiveSessions' result
DeviceView(s) ==
  LET data == JSONParse(s)
  IN [sessionId |-> "hidden",
      device |-> [ip |-> data.meta.ip, userAgent |-> data.meta.userAgent],
      loginAt |-> data.meta.loginAt]

\* getActiveSessions up to the await of store.findAllByUser
getActiveSessions(S, userId, t, fl) ==
  LET r == [NewCall("getActiveSessions", NoSid) EXCEPT !.arg = <<userId>>]
      found == MemFindAllByUser(S.store, userId, t)
  IN IF fl
     THEN Await(S, "findAllByUser", [r EXCEPT !.failed = TRUE], FALSE, "fail",
                <<>>, t)
     ELSE Await([S EXCEPT !.store = found.st], "findAllByUser", r, FALSE,
                "ok", found.sessions, t)

getActiveSessionsFound(S, task, t) ==
  IF task.out = "fail" THEN Done(S, [task.r EXCEPT !.kind = "threw"])
  ELSE Done(S, [task.r EXCEPT
                  !.valid = TRUE,
                  !.list = [i \in 1..Len(task.data) |-> DeviceView(task.data[i])]])

----------------------------------------------------------------------------
(* Scheduling: a suspended call resumes after its await *)

Continue(S, task, t, fl) ==
  CASE task.pc = "get" -> fetchSessionGot(S, task, t, fl)
    [] task.pc = "touch" -> fetchSessionTouched(S, task, t)
    [] task.pc = "set" -> loginStored(S, task, t)
    [] task.pc = "delete" -> logoutDeleted(S, task, t)
    [] task.pc = "deleteByUser" -> logoutAllDeleted(S, task, t)
    [] task.pc = "findAllByUser" -> getActiveSessionsFound(S, task, t)

\* The step's effect on store, cache and throttle map is noted on the call
Mark(S, out) ==
  [out EXCEPT !.task.r.wrote = @ \/ Core(out.S) # Core(S)]

Resume(S, task, t, fl) == Mark(S, Continue(S, task, t, fl))

\* A call run to its return with nothing else in between; fl is the
\* outcome of the second store call, if the call makes one
RunToEnd(S, first, t, fl) ==
  LET a == Mark(S, first)
      b == IF a.task.pc = "done" THEN a ELSE Resume(a.S, a.task, t, fl)
  IN IF b.task.pc = "done" THEN b ELSE Resume(b.S, b.task, t, FALSE)

----------------------------------------------------------------------------
(* Inputs *)

\* Tokens a caller can present: signed with this engine's secret now or one
\* token lifetime ago, for a session id it knows (or for none), or forged
Tokens ==
  [sid : 0..(nextSid - 1),
   iat : {Seconds(t) : t \in {c \in {now - TickMs, now} : c >= StartMs}},
   sig : {"good", "bad"}]

----------------------------------------------------------------------------
----------------------------------------------------------------------------
(* Initial state: a new engine, constructed without smtp options, on an     *)
(* empty store                                                             *)

Init ==
  /\ now = StartMs
  /\ store = << >>
  /\ cache = << >>
  /\ lastTouch = << >>
  /\ nextSid = 1
  /\ tasks = [k \in 1..MaxTasks |-> Idle]
  /\ res = NoCall
  /\ hist = [deletedAt |-> << >>, touchAt |-> << >>, published |-> << >>,
             loggedOut |-> {}, sent |-> 0, accepted |-> << >>,
             minted |-> << >>, refused |-> {}]
  /\ mailer = FALSE
  /\ otp = << >>

Install(S) ==
  /\ store' = S.store
  /\ cache' = S.cache
  /\ lastTouch' = S.lastTouch
  /\ nextSid' = S.nextSid

Quiet == \A k \in DOMAIN tasks : tasks[k].pc = "idle"

----------------------------------------------------------------------------
(* Calls run one at a time *)

\* What was true of the session when the call started
Before(sid) ==
  [t0 |-> now,
   live0 |-> Live(store, sid, now),
   cached0 |-> Fresh(cache, sid, now),
   published0 |-> sid \in DOMAIN hist.published,
   loggedOut0 |-> sid \in hist.loggedOut,
   touched0 |-> IF sid \in DOMAIN hist.touchAt
                THEN <<hist.touchAt[sid]>> ELSE <<>>]

\* The history of the calls that have returned: when the session was last
\* published into the cache by a login or by an authorize that read the
\* store, when its record was last touched, both since its last logout, and
\* whether a logout of it has returned
Noted(r) ==
  LET publishes == \/ r.op = "login" /\ r.kind = "returned"
                   \/ r.op = "authorize" /\ r.gets = 1 /\ r.valid
      touches == r.op = "authorize" /\ r.touches = 1 /\ ~r.failed
  IN [hist EXCEPT
        !.published = IF r.op = "logout" THEN Drop(@, r.sid)
                      ELSE IF publishes THEN Put(@, r.sid, now) ELSE @,
        !.touchAt = IF r.op = "logout" THEN Drop(@, r.sid)
                    ELSE IF touches THEN Put(@, r.sid, now) ELSE @,
        !.loggedOut = IF r.op = "logout" /\ r.kind = "returned"
                      THEN @ \cup {r.sid} ELSE @]

Returns(out) ==
  /\ Quiet
  /\ res = NoCall
  /\ Install(out.S)
  /\ res' = Before(out.task.r.sid) @@ out.task.r
  /\ hist' = Noted(out.task.r)
  /\ UNCHANGED <<now, tasks>>
  /\ UNCHANGED otpVars

Login(id, req, fl) ==
  /\ nextSid <= MaxSessions
  /\ Returns(RunToEnd(World, login(World, id, req, now, fl), now, FALSE))

Authorize(token, fl1, fl2) ==
  Returns(RunToEnd(World, authorize(World, token, now, fl1), now, fl2))

Logout(sessionId, fl) ==
  Returns(RunToEnd(World, logout(World, sessionId, now, fl), now, FALSE))

LogoutAll(userId, fl) ==
  Returns(RunToEnd(World, logoutAll(World, userId, now, fl), now, FALSE))

GetActiveSessions(userId, fl) ==
  Returns(RunToEnd(World, getActiveSessions(World, userId, now, fl), now, FALSE))

\* The record is deleted directly in the store (another process, an operator)
StoreDelete(key) ==
  /\ res = NoCall
  /\ key \in DOMAIN store
  /\ store' = MemDelete(store, key)
  /\ UNCHANGED <<now, cache, lastTouch, nextSid, tasks, res, hist>>
  /\ UNCHANGED otpVars

\* Time passes.  The history forgets the publications older than the cache
\* TTL; a call that has returned is collected first
Tick ==
  /\ res = NoCall
  /\ now < EndMs
  /\ now' = now + TickMs
  /\ hist' = [hist EXCEPT
                !.published = [k \in {x \in DOMAIN @ : now' - @[x] <= CacheTTL}
                                 |-> @[k]]]
  /\ UNCHANGED <<store, cache, lastTouch, nextSid, tasks, res>>
  /\ UNCHANGED otpVars

\* The caller takes the result of the call that has returned
Collect ==
  /\ res # NoCall
  /\ res' = NoCall
  /\ UNCHANGED <<now, store, cache, lastTouch, nextSid, tasks, hist>>
  /\ UNCHANGED otpVars

Next ==
  \/ \E id \in Ids, req \in Reqs, fl \in BOOLEAN : Login(id, req, fl)
  \/ \E token \in Tokens, fl1, fl2 \in BOOLEAN : Authorize(token, fl1, fl2)
  \/ \E sessionId \in 1..(nextSid - 1), fl \in BOOLEAN : Logout(sessionId, fl)
  \/ \E userId \in Ids, fl \in BOOLEAN : LogoutAll(userId, fl)
  \/ \E userId \in Ids, fl \in BOOLEAN : GetActiveSessions(userId, fl)
  \/ \E key \in Sids : StoreDelete(key)
  \/ Tick
  \/ Collect

Spec == Init /\ [][Next]_vars

----------------------------------------------------------------------------
(* Calls in flight together, on a store that does not fail *)

\* What was true of the session when the call started
ConcBefore(sid) ==
  [t0 |-> now,
   cached0 |-> Fresh(cache, sid, now),
   deleted0 |-> IF sid \in DOMAIN hist.deletedAt
                THEN <<hist.deletedAt[sid]>> ELSE <<>>]

\* The history here is when the live record of a session was deleted
Deleted(st) ==
  LET keys == {k \in DOMAIN store \ DOMAIN st : Live(store, k, now)}
  IN [hist EXCEPT !.deletedAt =
        [k \in (DOMAIN @) \cup keys |-> IF k \in DOMAIN @ THEN @[k] ELSE now]]

\* A step of a call: it returns, or it is suspended at its next await
Steps(k, out, pre) ==
  /\ res = NoCall
  /\ Install(out.S)
  /\ hist' = Deleted(out.S.store)
  /\ IF out.task.pc = "done"
     THEN res' = pre[1] @@ out.task.r /\ tasks' = [tasks EXCEPT ![k] = Idle]
     ELSE res' = res /\ tasks' = [tasks EXCEPT ![k] = [out.task EXCEPT !.pre = pre]]
  /\ UNCHANGED now
  /\ UNCHANGED otpVars

\* A call starts in the first free slot and runs to its first await
Starts(first) ==
  LET k == CHOOSE i \in DOMAIN tasks :
             /\ tasks[i].pc = "idle"
             /\ \A j \in DOMAIN tasks : tasks[j].pc = "idle" => i <= j
  IN /\ ~(\A i \in DOMAIN tasks : tasks[i].pc # "idle")
     /\ Steps(k, Mark(World, first), <<ConcBefore(first.task.r.sid)>>)

StartLogin(id, req) ==
  /\ nextSid <= ConcSessions
  /\ Starts(login(World, id, req, now, FALSE))

StartAuthorize(token) == Starts(authorize(World, token, now, FALSE))

StartLogout(sessionId) == Starts(logout(World, sessionId, now, FALSE))

StartLogoutAll(userId) == Starts(logoutAll(World, userId, now, FALSE))

StartGetActiveSessions(userId) ==
  Starts(getActiveSessions(World, userId, now, FALSE))

\* The call in slot k resumes after its await
Resumes(k) ==
  /\ tasks[k].pc # "idle"
  /\ Steps(k, Resume(World, tasks[k], now, FALSE), tasks[k].pre)

ConcStoreDelete(key) ==
  /\ res = NoCall
  /\ key \in DOMAIN store
  /\ store' = MemDelete(store, key)
  /\ hist' = Deleted(store')
  /\ UNCHANGED <<now, cache, lastTouch, nextSid, tasks, res>>
  /\ UNCHANGED otpVars

ConcNext ==
  \/ \E id \in Ids, req \in Reqs : StartLogin(id, req)
  \/ \E token \in Tokens : StartAuthorize(token)
  \/ \E sessionId \in 1..(nextSid - 1) : StartLogout(sessionId)
  \/ \E userId \in Ids : StartLogoutAll(userId)
  \/ \E userId \in Ids : StartGetActiveSessions(userId)
  \/ \E k \in 1..MaxTasks : Resumes(k)
  \/ \E key \in Sids : ConcStoreDelete(key)
  \/ Tick
  \/ Collect

ConcSpec == Init /\ [][ConcNext]_vars

----------------------------------------------------------------------------
(* ZenAuth (src/src/core/ZenAuth.ts): the engine with neither cache nor   *)
(* throttle, on a store that answers                                      *)

\* jwt.sign({sessionId, ...payload}, secret, {expiresIn: tokenDuration})
ZenSignToken(sessionId, payload, t) ==
  [sid |-> sessionId, iat |-> Seconds(t), sig |-> "good",
   id |-> payload.id, meta |-> payload.meta]

zenLogin(S, id, req, t) ==
  LET sessionId == S.nextSid
      fullPayload == FullPayload(id, req, t)
  IN Done([S EXCEPT !.nextSid = @ + 1,
                    !.store = MemSet(@, sessionId, JSONStringify(fullPayload),
                                     SessionDuration, t)],
          [NewCall("login", sessionId) EXCEPT
             !.valid = TRUE,
             !.token = <<ZenSignToken(sessionId, fullPayload, t)>>])

\* validateSession: read the store, slide the window
zenValidateSession(S, r, sessionId, t) ==
  LET mg == MemGet(S.store, sessionId, t)
  IN IF ~mg.found
     THEN Done([S EXCEPT !.store = mg.st], [r EXCEPT !.gets = @ + 1])
     ELSE Done([S EXCEPT !.store = MemTouch(mg.st, sessionId,
                                            SessionDuration, t)],
               [r EXCEPT !.gets = @ + 1, !.touches = @ + 1, !.valid = TRUE,
                         !.sessionId = <<sessionId>>,
                         !.user = <<JSONParse(mg.value)>>])

zenAuthorize(S, token, t) ==
  LET r == [NewCall("authorize", token.sid) EXCEPT !.presented = <<token>>]
      v == Verify(token, t)
  IN IF v = "invalid" THEN Done(S, r)
     ELSE IF v = "expired" /\ token.sid = NoSid THEN Done(S, r)
     ELSE zenValidateSession(S, r, token.sid, t)

zenLogout(S, sessionId) ==
  Done([S EXCEPT !.store = MemDelete(@, sessionId)],
       [NewCall("logout", sessionId) EXCEPT !.valid = TRUE])

\* The tokens of the sessions in the store, as issued now or one token
\* lifetime ago, or forged
ZenTokens ==
  {[ZenSignToken(k, JSONParse(store[k].value), t) EXCEPT !.sig = g] :
     k \in DOMAIN store,
     t \in {c \in {now - TickMs, now} : c >= StartMs},
     g \in {"good", "bad"}}

ZenLogin(id, req) ==
  /\ nextSid <= MaxSessions
  /\ Returns(Mark(World, zenLogin(World, id, req, now)))

ZenAuthorize(token) == Returns(Mark(World, zenAuthorize(World, token, now)))

ZenLogout(sessionId) == Returns(Mark(World, zenLogout(World, sessionId)))

ZenNext ==
  \/ \E id \in Ids, req \in Reqs : ZenLogin(id, req)
  \/ \E token \in ZenTokens : ZenAuthorize(token)
  \/ \E sessionId \in 1..(nextSid - 1) : ZenLogout(sessionId)
  \/ Tick
  \/ Collect

ZenSpec == Init /\ [][ZenNext]_vars

----------------------------------------------------------------------------
(* The caller keeps the user object that authorize returned: it is the     *)
(* object held by the cache, frozen by Object.freeze at its top level only *)

Paths == {"id", "_meta.ip"}

\* An assignment to a property of the frozen object is rejected; one to a
\* property of its nested _meta object takes effect
AssignField(user, path, value) ==
  IF path = "_meta.ip" THEN [user EXCEPT !.meta.ip = value] ELSE user

\* The caller of the authorize that has just returned writes into the user
\* object of its result
Mutate(path) ==
  /\ res.op = "authorize"
  /\ res.valid
  /\ res.sid \in DOMAIN cache
  /\ cache' = [cache EXCEPT
                 ![res.sid].value = AssignField(@, path, "tampered")]
  /\ res' = NoCall
  /\ UNCHANGED <<now, store, lastTouch, nextSid, tasks, hist>>
  /\ UNCHANGED otpVars

AliasNext ==
  \/ \E id \in Ids, req \in Reqs : Login(id, req, FALSE)
  \/ \E token \in Tokens : Authorize(token, FALSE, FALSE)
  \/ \E sessionId \in 1..(nextSid - 1) : Logout(sessionId, FALSE)
  \/ \E path \in Paths : Mutate(path)
  \/ Tick
  \/ Collect

AliasSpec == Init /\ [][AliasNext]_vars

----------------------------------------------------------------------------
(* One-time passcodes.  otp holds the store's records under the keys        *)
(* `otp:${email}`, by email; mailer tells whether the constructor was given *)
(* smtp options and created a transport.  hist.sent counts the passcodes    *)
(* stored so far, and hist.accepted the verifyOTP calls that returned       *)
(* valid: true for each of them                                             *)

MaxSends == 2
OtpTTL == 600

Emails == {"a@example.com"}
Codes == {"123456", "654321"}

\* set of a passcode: JSON.parse of its digits is a number, which has no id.
\* nth is not a field of the record: it tells the passcodes apart
OtpSet(st, key, code, ttlSeconds, t) ==
  Put(st, key, [value |-> code, userId |-> Str("unknown"),
                expiresAt |-> t + ttlSeconds * 1000, nth |-> hist.sent + 1])

OtpCall(op, email, code) ==
  [op |-> op, kind |-> "returned", valid |-> FALSE, success |-> FALSE,
   error |-> "", email |-> email, code |-> code, nth |-> 0, stored |-> FALSE]

\* A sendOTP that stores the passcode before it looks for the transport
sendOTPStoresFirst(m, st, email, code, t, fl) ==
  LET r == [OtpCall("sendOTP", email, code) EXCEPT !.stored = TRUE]
      set == OtpSet(st, email, code, OtpTTL, t)
  IN IF ~m
     THEN [otp |-> set,
           r |-> [r EXCEPT !.kind = "threw", !.error = "SMTP config not provided"]]
     ELSE IF fl THEN [otp |-> set, r |-> [r EXCEPT !.kind = "threw", !.error = "sendMail"]]
     ELSE [otp |-> set, r |-> [r EXCEPT !.success = TRUE]]

\* sendOTP: fl tells that mailer.sendMail rejects
sendOTP(m, st, email, code, t, fl) ==
  LET r == OtpCall("sendOTP", email, code)
      set == OtpSet(st, email, code, OtpTTL, t)
  IN IF ~m
     THEN [otp |-> st,
           r |-> [r EXCEPT !.kind = "threw", !.error = "SMTP config not provided"]]
     ELSE IF fl
     THEN [otp |-> set,
           r |-> [r EXCEPT !.kind = "threw", !.error = "sendMail", !.stored = TRUE]]
     ELSE [otp |-> set, r |-> [r EXCEPT !.success = TRUE, !.stored = TRUE]]

\* verifyOTP up to its await of store.get
verifyOTP(st, email, code, t) ==
  LET got == MemGet(st, email, t)
      r == OtpCall("verifyOTP", email, code)
  IN [otp |-> got.st,
      task |-> Task("otpGet",
                    [r EXCEPT !.nth = IF got.found THEN st[email].nth ELSE 0],
                    FALSE, "ok",
                    IF got.found THEN <<got.value>> ELSE <<>>, StartMs)]

\* verifyOTP from the storedCode it read up to its await of store.delete
verifyOTPGot(st, task) ==
  LET r == task.r
      storedCode == task.data
  IN IF storedCode = <<>>
     THEN [otp |-> st,
           task |-> [task EXCEPT !.pc = "done", !.r.error = "Invalid code"]]
     ELSE IF storedCode[1] # r.code
     THEN [otp |-> st,
           task |-> [task EXCEPT !.pc = "done", !.r.error = "Incorrect code"]]
     ELSE [otp |-> MemDelete(st, r.email),
           task |-> [task EXCEPT !.pc = "otpDelete"]]

\* verifyOTP after its store.delete
verifyOTPDeleted(st, task) ==
  [otp |-> st, task |-> [task EXCEPT !.pc = "done", !.r.valid = TRUE]]

\* The verifyOTP calls that returned valid: true, by passcode
Accepted(r) ==
  IF r.op = "verifyOTP" /\ r.valid
  THEN [hist EXCEPT !.accepted =
          Put(@, r.nth, IF r.nth \in DOMAIN @ THEN @[r.nth] + 1 ELSE 1)]
  ELSE hist

SendOTP(email, code, fl) ==
  /\ res = NoCall
  /\ hist.sent < MaxSends
  /\ LET out == sendOTP(mailer, otp, email, code, now, fl)
     IN /\ otp' = out.otp
        /\ res' = out.r
        /\ hist' = [hist EXCEPT !.sent = IF out.r.stored THEN @ + 1 ELSE @]
  /\ UNCHANGED <<now, store, cache, lastTouch, nextSid, tasks, mailer>>

StartVerifyOTP(k, email, code) ==
  /\ res = NoCall
  /\ tasks[k].pc = "idle"
  /\ LET out == verifyOTP(otp, email, code, now)
     IN /\ otp' = out.otp
        /\ tasks' = [tasks EXCEPT ![k] = out.task]
  /\ UNCHANGED <<now, store, cache, lastTouch, nextSid, res, hist, mailer>>

ResumeVerifyOTP(k) ==
  /\ res = NoCall
  /\ tasks[k].pc \in {"otpGet", "otpDelete"}
  /\ LET out == IF tasks[k].pc = "otpGet" THEN verifyOTPGot(otp, tasks[k])
                ELSE verifyOTPDeleted(otp, tasks[k])
     IN /\ otp' = out.otp
        /\ IF out.task.pc = "done"
           THEN /\ res' = out.task.r
                /\ tasks' = [tasks EXCEPT ![k] = Idle]
                /\ hist' = Accepted(out.task.r)
           ELSE /\ tasks' = [tasks EXCEPT ![k] = out.task]
                /\ UNCHANGED <<res, hist>>
  /\ UNCHANGED <<now, store, cache, lastTouch, nextSid, mailer>>

\* A new engine, constructed with or without smtp options
OtpInit ==
  /\ now = StartMs
  /\ store = << >>
  /\ cache = << >>
  /\ lastTouch = << >>
  /\ nextSid = 1
  /\ tasks = [k \in 1..MaxTasks |-> Idle]
  /\ res = NoCall
  /\ hist = [deletedAt |-> << >>, touchAt |-> << >>, published |-> << >>,
             loggedOut |-> {}, sent |-> 0, accepted |-> << >>,
             minted |-> << >>, refused |-> {}]
  /\ mailer \in BOOLEAN
  /\ otp = << >>

OtpNext ==
  \/ \E id \in Ids, req \in Reqs : nextSid <= ConcSessions /\ Login(id, req, FALSE)
  \/ \E token \in Tokens : Authorize(token, FALSE, FALSE)
  \/ \E sessionId \in 1..(nextSid - 1) : Logout(sessionId, FALSE)
  \/ \E email \in Emails, code \in Codes, fl \in BOOLEAN : SendOTP(email, code, fl)
  \/ \E k \in DOMAIN tasks, email \in Emails, code \in Codes :
       StartVerifyOTP(k, email, code)
  \/ \E k \in DOMAIN tasks : ResumeVerifyOTP(k)
  \/ Tick
  \/ Collect

OtpSpec == OtpInit /\ [][OtpNext]_vars

----------------------------------------------------------------------------
(* Rotations.  hist.minted tells, for each token presented while the       *)
(* record of its session was live, whether authorize has answered it with  *)
(* a new token once, or more than once (2)                                 *)

Minted(r, live) ==
  IF r.op = "authorize" /\ r.token # <<>> /\ live
  THEN [Noted(r) EXCEPT !.minted =
          Put(@, r.presented[1],
              IF r.presented[1] \in DOMAIN @ THEN 2 ELSE 1)]
  ELSE Noted(r)

RotAuthorize(token) ==
  LET out == RunToEnd(World, authorize(World, token, now, FALSE), now, FALSE)
      r == out.task.r
  IN /\ Quiet
     /\ res = NoCall
     /\ Install(out.S)
     /\ res' = Before(r.sid) @@ r
     /\ hist' = Minted(r, Live(store, r.sid, now))
     /\ UNCHANGED <<now, tasks>>
     /\ UNCHANGED otpVars

RotNext ==
  \/ \E id \in Ids, req \in Reqs : nextSid <= ConcSessions /\ Login(id, req, FALSE)
  \/ \E token \in Tokens : RotAuthorize(token)
  \/ \E sessionId \in 1..(nextSid - 1) : Logout(sessionId, FALSE)
  \/ Tick
  \/ Collect

RotSpec == Init /\ [][RotNext]_vars

----------------------------------------------------------------------------
(* Races of authorize with logout and logoutAll, on a store that answers.  *)
(* The history here is when the live record of a session was deleted, the  *)
(* sessions a logout has returned for, and the sessions an authorize has   *)
(* refused because store.get found no record                               *)

RaceBefore(sid) ==
  ConcBefore(sid) @@ [refused0 |-> sid \in hist.refused]

RaceNoted(out) ==
  LET r == out.task.r
      done == out.task.pc = "done"
  IN [Deleted(out.S.store) EXCEPT
        !.refused = IF done /\ r.op = "authorize" /\ ~r.valid /\ r.gets = 1
                    THEN @ \cup {r.sid} ELSE @,
        !.loggedOut = IF done /\ r.op = "logout" /\ r.kind = "returned"
                      THEN @ \cup {r.sid} ELSE @]

RaceSteps(k, out, pre) ==
  /\ res = NoCall
  /\ Install(out.S)
  /\ hist' = RaceNoted(out)
  /\ IF out.task.pc = "done"
     THEN res' = pre[1] @@ out.task.r /\ tasks' = [tasks EXCEPT ![k] = Idle]
     ELSE res' = res /\ tasks' = [tasks EXCEPT ![k] = [out.task EXCEPT !.pre = pre]]
  /\ UNCHANGED now
  /\ UNCHANGED otpVars

RaceStarts(first) ==
  LET k == CHOOSE i \in DOMAIN tasks :
             /\ tasks[i].pc = "idle"
             /\ \A j \in DOMAIN tasks : tasks[j].pc = "idle" => i <= j
  IN /\ ~(\A i \in DOMAIN tasks : tasks[i].pc # "idle")
     /\ RaceSteps(k, Mark(World, first), <<RaceBefore(first.task.r.sid)>>)

RaceLogin(id, req) ==
  /\ nextSid <= ConcSessions
  /\ RaceStarts(login(World, id, req, now, FALSE))

\* A caller holds the token and the id of a session once its login has
\* returned
Issued(sessionId) ==
  \A k \in DOMAIN tasks :
    ~(tasks[k].pc # "idle" /\ tasks[k].r.op = "login"
        /\ tasks[k].r.sid = sessionId)

RaceAuthorize(token) ==
  /\ Issued(token.sid)
  /\ RaceStarts(authorize(World, token, now, FALSE))

RaceLogout(sessionId) ==
  /\ Issued(sessionId)
  /\ RaceStarts(logout(World, sessionId, now, FALSE))

RaceLogoutAll(userId) == RaceStarts(logoutAll(World, userId, now, FALSE))

RaceResumes(k) ==
  /\ tasks[k].pc # "idle"
  /\ RaceSteps(k, Resume(World, tasks[k], now, FALSE), tasks[k].pre)

RaceNext ==
  \/ \E id \in Ids, req \in Reqs : RaceLogin(id, req)
  \/ \E token \in Tokens : RaceAuthorize(token)
  \/ \E sessionId \in 1..(nextSid - 1) : RaceLogout(sessionId)
  \/ \E userId \in Ids : RaceLogoutAll(userId)
  \/ \E k \in 1..MaxTasks : RaceResumes(k)
  \/ Tick
  \/ Collect

RaceSpec == Init /\ [][RaceNext]_vars

----------------------------------------------------------------------------
(* The three store adapters side by side: here store is a record of the    *)
(* MemoryStore map, the PostgresStore table and the MongoStore collection, *)
(* each by key, and every call is made on all three                        *)

Adapters == {"mem", "pg", "mongo"}

\* sess->>'userId': the text of the property userId of the JSON payload,
\* NULL when the payload has none.  A login payload has id and _meta only
PgUserId(sess) ==
  LET parsed == JSONParse(sess)
  IN IF "userId" \in DOMAIN parsed THEN String(parsed.userId) ELSE Undefined

\* INSERT ... ON CONFLICT (sid) DO UPDATE
PgSet(tbl, key, value, ttlSeconds, t) ==
  Put(tbl, key, [sid |-> key, sess |-> value,
                 expired_at |-> t + ttlSeconds * 1000])

\* WHERE sess->>'userId' = $1: a NULL matches nothing
PgMatches(tbl, key, userId) ==
  /\ PgUserId(tbl[key].sess).typ # "undefined"
  /\ PgUserId(tbl[key].sess).val = String(userId).val

\* SELECT sess ... WHERE sess->>'userId' = $1 AND expired_at > NOW()
PgFindAllByUser(tbl, userId, t) ==
  {tbl[k].sess : k \in {x \in DOMAIN tbl : PgMatches(tbl, x, userId)
                                            /\ tbl[x].expired_at > t}}

PgDeleteByUser(tbl, userId) ==
  [k \in {x \in DOMAIN tbl : ~PgMatches(tbl, x, userId)} |-> tbl[k]]

\* updateOne({_id: key}, {_id: key, data: value, expiresAt}, {upsert: true})
MongoSet(coll, key, value, ttlSeconds, t) ==
  Put(coll, key, [id |-> key, data |-> value,
                  expiresAt |-> t + ttlSeconds * 1000])

\* The documents a query {userId} matches: those with that field and value
MongoMatching(coll, userId) ==
  {k \in DOMAIN coll :
     "userId" \in DOMAIN coll[k] /\ coll[k].userId = userId}

\* findOne({userId}), then docs.map on what it gave: [] for null, a
\* TypeError for a document, which has no map
MongoFindAllByUser(coll, userId) ==
  IF MongoMatching(coll, userId) = {}
  THEN [kind |-> "returned", sessions |-> {}]
  ELSE [kind |-> "threw", sessions |-> {}]

\* deleteOne({userId}): the first matching document, if any
MongoDeleteByUser(coll, userId) ==
  LET m == MongoMatching(coll, userId)
  IN IF m = {} THEN coll
     ELSE Drop(coll, CHOOSE k \in m : \A j \in m : k <= j)

\* The records of the store that belong to the principal and have not
\* expired, as MemoryStore.get judges expiry
LiveOf(st, userId, t) ==
  {st[k].value : k \in {x \in DOMAIN st :
                          /\ JSONParse(st[x].value).id = userId
                          /\ ~(t > st[x].expiresAt)}}

Range(seq) == {seq[i] : i \in DOMAIN seq}

AdapterCall(op, userId) ==
  [op |-> op, userId |-> userId, kind |-> "returned",
   mem |-> {}, pg |-> {}, mongo |-> {}, live |-> {}]

\* set(sessionId, JSON.stringify(fullPayload), sessionDuration), as login
\* calls it
AdapterSet(id, req) ==
  LET key == nextSid
      value == JSONStringify(FullPayload(id, req, now))
  IN /\ res = NoCall
     /\ nextSid <= MaxSessions
     /\ nextSid' = nextSid + 1
     /\ store' = [mem |-> MemSet(store.mem, key, value, SessionDuration, now),
                  pg |-> PgSet(store.pg, key, value, SessionDuration, now),
                  mongo |-> MongoSet(store.mongo, key, value,
                                     SessionDuration, now)]
     /\ res' = AdapterCall("set", id)
     /\ UNCHANGED <<now, cache, lastTouch, tasks, hist>>
     /\ UNCHANGED otpVars

AdapterFindAllByUser(userId) ==
  LET m == MemFindAllByUser(store.mem, userId, now)
      g == MongoFindAllByUser(store.mongo, userId)
  IN /\ res = NoCall
     /\ store' = [store EXCEPT !.mem = m.st]
     /\ res' = [AdapterCall("findAllByUser", userId) EXCEPT
                  !.mem = Range(m.sessions),
                  !.pg = PgFindAllByUser(store.pg, userId, now),
                  !.mongo = g.sessions,
                  !.kind = g.kind,
                  !.live = LiveOf(store.mem, userId, now)]
     /\ UNCHANGED <<now, cache, lastTouch, nextSid, tasks, hist>>
     /\ UNCHANGED otpVars

AdapterDeleteByUser(userId) ==
  /\ res = NoCall
  /\ store' = [mem |-> MemDeleteByUser(store.mem, userId),
               pg |-> PgDeleteByUser(store.pg, userId),
               mongo |-> MongoDeleteByUser(store.mongo, userId)]
  /\ res' = AdapterCall("deleteByUser", userId)
  /\ UNCHANGED <<now, cache, lastTouch, nextSid, tasks, hist>>
  /\ UNCHANGED otpVars

AdapterInit ==
  /\ now = StartMs
  /\ store = [mem |-> << >>, pg |-> << >>, mongo |-> << >>]
  /\ cache = << >>
  /\ lastTouch = << >>
  /\ nextSid = 1
  /\ tasks = [k \in 1..MaxTasks |-> Idle]
  /\ res = NoCall
  /\ hist = [deletedAt |-> << >>, touchAt |-> << >>, published |-> << >>,
             loggedOut |-> {}, sent |-> 0, accepted |-> << >>,
             minted |-> << >>, refused |-> {}]
  /\ mailer = FALSE
  /\ otp = << >>

AdapterNext ==
  \/ \E id \in Ids, req \in Reqs : AdapterSet(id, req)
  \/ \E userId \in Ids : AdapterFindAllByUser(userId)
  \/ \E userId \in Ids : AdapterDeleteByUser(userId)
  \/ Tick
  \/ Collect

AdapterSpec == AdapterInit /\ [][AdapterNext]_vars

----------------------------------------------------------------------------
(* Properties.  res is the call that has just returned, with what was true *)
(* of its session when it started                                          *)

Authorized == res.op = "authorize"

\* C1 (ConcSpec): once the durable record of a session has been deleted, an
\* authorize that starts more than one cache TTL after the deletion returns
\* valid=false, and so does one that starts with no cache entry for the
\* session, whatever calls were in flight before.
RevocationBounded ==
  (Authorized /\ res.deleted0 # <<>>) =>
    /\ (res.t0 > res.deleted0[1] + CacheTTL) => ~res.valid
    /\ ~res.cached0 => ~res.valid

\* C2 (Spec): after a logout of a session has returned, every authorize with
\* a token naming that session returns valid=false, at once.
LogoutImmediate == (Authorized /\ res.loggedOut0) => ~res.valid

LoggedOutThenAuthorized ==
  /\ Authorized
  /\ res.loggedOut0
  /\ res.presented[1].sig = "good"
  /\ res.gets = 1
  /\ ~res.failed

\* C3 (Spec): an authorize with a well-signed, expired token whose session
\* has a live durable record, on a store that answers, returns valid=true
\* with the token's session id and a new token that differs from the one
\* presented.
GracefulRotation ==
  (/\ Authorized
   /\ Verify(res.presented[1], res.t0) = "expired"
   /\ res.live0
   /\ ~res.failed)
  => /\ res.kind = "returned"
     /\ res.valid
     /\ res.sessionId = <<res.presented[1].sid>>
     /\ res.token # <<>>
     /\ res.token[1] # res.presented[1]
     /\ res.token[1].sid = res.presented[1].sid

RotatedFromStore ==
  /\ Authorized
  /\ Verify(res.presented[1], res.t0) = "expired"
  /\ res.live0
  /\ res.gets = 1
  /\ res.token # <<>>

\* C4 (Spec): of the authorize calls made one after another for a session
\* since its last logout, one touches the durable store only if more than
\* the throttle window has passed since the previous touch, and no call
\* touches it twice: a window holds at most one touch.
WriteThrottled ==
  Authorized =>
    /\ res.touches <= 1
    /\ (res.touches = 1 /\ res.touched0 # <<>>)
         => res.t0 - res.touched0[1] > ThrottleMs

ThrottledAtWindowEnd ==
  /\ Authorized
  /\ res.valid
  /\ res.touches = 0
  /\ res.touched0 # <<>>
  /\ res.t0 - res.touched0[1] = ThrottleMs

\* C5 (Spec): an authorize that follows, within the cache TTL and with no
\* logout in between, a login or an authorize that read the session from the
\* store, does not call store.get.
CacheHitNoRead == (Authorized /\ res.published0) => res.gets = 0

CacheHitAfterPublish ==
  /\ Authorized
  /\ res.published0
  /\ res.valid
  /\ res.gets = 0
  /\ res.t0 > hist.published[res.sid]

Expired(st, key, t) == key \in DOMAIN st /\ t > st[key].expiresAt

\* C6 (Spec): a durable record whose lifetime has elapsed is never live
\* again, whatever call is made.
ExpiredStaysExpired ==
  [][\A key \in Sids : Expired(store, key, now) => ~Live(store', key, now')]_vars

\* C7 (Spec): a login, authorize or logout during which a store operation
\* failed throws to its caller, and returns no result.
FailuresPropagate ==
  (res.op \in {"login", "authorize", "logout"} /\ res.failed)
  => res.kind = "threw"

\* C8 (Spec): an authorize with a token whose signature is bad or that names
\* no session returns valid=false, calls neither store.get nor store.touch
\* and leaves the cache, the throttle map and the store as they were.
BadTokenNoStoreAccess ==
  (Authorized /\ (res.presented[1].sig = "bad" \/ res.presented[1].sid = NoSid))
  => /\ ~res.valid
     /\ res.gets = 0
     /\ res.touches = 0
     /\ ~res.wrote

\* The records of the sessions that login created for a principal
Owned(st, userId) ==
  [k \in {x \in DOMAIN st : JSONParse(st[x].value).id = userId} |-> st[k]]

\* What getActiveSessions(userId) returns in a state
Listed(S, userId, t) ==
  RunToEnd(S, getActiveSessions(S, userId, t, FALSE), t, FALSE).task.r.list

\* C9 (Spec): when logoutAll(P) returns, getActiveSessions(P) is empty, and
\* for every other principal Q the durable records and getActiveSessions(Q)
\* are what they were before the call.
OwnerScopedRevocation ==
  [][(res.op = "none" /\ res'.op = "logoutAll" /\ res'.kind = "returned")
     => LET P == res'.arg[1]
        IN /\ Listed(World', P, now') = <<>>
           /\ \A Q \in Ids \ {P} :
                /\ Owned(store', Q) = Owned(store, Q)
                /\ Listed(World', Q, now') = Listed(World, Q, now)]_vars

OthersSurviveLogoutAll ==
  /\ res.op = "logoutAll"
  /\ res.kind = "returned"
  /\ res.wrote
  /\ store # << >>

\* C10 (Spec): getActiveSessions(P) returns one entry for each session that
\* login created for P and that is still live, for every id login accepts.
ListsEveryLiveSession ==
  (res.op = "getActiveSessions" /\ res.kind = "returned")
  => Len(res.list) =
       Cardinality({k \in DOMAIN Owned(store, res.arg[1]) :
                      Live(store, k, res.t0)})

\* The device entries of the live sessions that login created for a principal
LiveViews(st, userId, t) ==
  LET live == {k \in DOMAIN Owned(st, userId) : Live(st, k, t)}
      values == ValuesInOrder(st, live, 1)
  IN [i \in 1..Len(values) |-> DeviceView(values[i])]

\* C11 (Spec): a getActiveSessions(P) that starts while an expired record of
\* P is still in the store returns, without an error, the entries of P's
\* live sessions and no entry of an expired one.
LazyCleanup ==
  [][(/\ res.op = "none"
      /\ res'.op = "getActiveSessions"
      /\ ~res'.failed
      /\ \E k \in DOMAIN Owned(store, res'.arg[1]) : Expired(store, k, now))
     => /\ res'.kind = "returned"
        /\ res'.list = LiveViews(store, res'.arg[1], now)]_vars

\* C12 (ZenSpec): a token returned by login or by a rotating authorize is
\* made of the session id, the issue time and the signature alone; nothing
\* of the principal's payload is in it.
TokenNamesSessionOnly ==
  (res.op \in {"login", "authorize"} /\ res.token # <<>>)
  => res.token[1] = [sid |-> res.sid, iat |-> Seconds(res.t0), sig |-> "good"]

\* C13 (AliasSpec): whatever a caller wrote into a user object that authorize
\* returned to it, a valid authorize returns the user data that login stored
\* for the session.
UserIsSnapshot ==
  (Authorized /\ res.valid /\ res.sid \in DOMAIN store)
  => res.user[1] = JSONParse(store[res.sid].value)

\* No entry for the session in the cache, the throttle map or the store
Absent(S, sessionId) ==
  /\ sessionId \notin DOMAIN S.cache
  /\ sessionId \notin DOMAIN S.lastTouch
  /\ sessionId \notin DOMAIN S.store

\* C14 (Spec): a logout of a session that a logout has already returned for,
\* or that has no entry anywhere, on a store that answers, returns without
\* an error and leaves the cache, the throttle map and the store as they
\* were.
LogoutIdempotent ==
  [][(/\ res.op = "none"
      /\ res'.op = "logout"
      /\ ~res'.failed
      /\ (res'.sid \in hist.loggedOut \/ Absent(World, res'.sid)))
     => /\ res'.kind = "returned"
        /\ Core(World') = Core(World)]_vars

SecondLogoutReturned ==
  /\ res.op = "logout"
  /\ res.loggedOut0
  /\ res.kind = "returned"
  /\ ~res.failed

\* C15 (Spec): when logout(sessionId) returns, the cache, the throttle map
\* and the store are what they were without their entry for sessionId: that
\* entry is gone and every other entry is unchanged.
LogoutRemovesExactly ==
  [][(res.op = "none" /\ res'.op = "logout" /\ res'.kind = "returned")
     => /\ cache' = Drop(cache, res'.sid)
        /\ lastTouch' = Drop(lastTouch, res'.sid)
        /\ store' = Drop(store, res'.sid)
        /\ Absent(World', res'.sid)]_vars

LogoutLeftOthers ==
  /\ res.op = "logout"
  /\ res.kind = "returned"
  /\ res.wrote
  /\ \E k \in DOMAIN store : k \in DOMAIN cache /\ k \in DOMAIN lastTouch

\* C16 (Spec): when logoutAll(P) returns, no record that login created for P
\* is left in the store, the records of the other principals are unchanged,
\* and so are the cache and the throttle map.
LogoutAllDeletesOwned ==
  [][(res.op = "none" /\ res'.op = "logoutAll" /\ res'.kind = "returned")
     => LET P == res'.arg[1]
        IN /\ DOMAIN Owned(store', P) = {}
           /\ \A Q \in Ids \ {P} : Owned(store', Q) = Owned(store, Q)
           /\ cache' = cache
           /\ lastTouch' = lastTouch]_vars

\* C17 (OtpSpec): of the verifyOTP calls made for one stored passcode, in any
\* order and interleaving, at most one returns valid: true.
OtpSingleUse == \A n \in DOMAIN hist.accepted : hist.accepted[n] <= 1

\* C18 (OtpSpec): on an engine constructed without smtp options, login
\* returns with the session's record stored, authorize accepts a well-signed
\* token of a live session, logout returns with the session gone, and every
\* sendOTP throws the configuration error without storing a passcode: no
\* passcode is ever in the store.
NoMailerFailsAtCall ==
  ~mailer =>
    /\ res.op = "login"
         => res.kind = "returned" /\ Live(store, res.sid, now)
    /\ (/\ Authorized
        /\ Verify(res.presented[1], res.t0) # "invalid"
        /\ res.presented[1].sid # NoSid
        /\ res.live0)
         => res.kind = "returned" /\ res.valid
    /\ res.op = "logout"
         => res.kind = "returned" /\ Absent(World, res.sid)
    /\ res.op = "sendOTP"
         => /\ res.kind = "threw"
            /\ res.error = "SMTP config not provided"
            /\ ~res.stored
    /\ otp = << >>

SendOTPThrewWithoutMailer ==
  /\ ~mailer
  /\ res.op = "sendOTP"
  /\ res.kind = "threw"
  /\ store # << >>

\* C19 (Spec): the result of an authorize carries a token, which differs from
\* the one presented, exactly when the presented token is well signed,
\* expired, names a session, and the result is valid; a well-signed token
\* that has not expired never yields a token; an expired token that names no
\* session yields valid=false with no call of the store.
TokenIffRotates ==
  Authorized =>
    LET presented == res.presented[1]
        v == Verify(presented, res.t0)
    IN /\ res.token # <<>>
            <=> (v = "expired" /\ presented.sid # NoSid /\ res.valid)
       /\ res.token # <<>> => res.token[1] # presented
       /\ v = "valid" => res.token = <<>>
       /\ (v = "expired" /\ presented.sid = NoSid)
            => /\ res.kind = "returned"
               /\ ~res.valid
               /\ res.gets = 0
               /\ res.touches = 0
               /\ ~res.wrote

RotatedFromCache ==
  /\ Authorized
  /\ Verify(res.presented[1], res.t0) = "expired"
  /\ res.valid
  /\ res.token # <<>>
  /\ res.gets = 0

\* The result the authorize would have had with the cache and the throttle
\* map discarded just before it, and the one of the engine that has neither
Discarded(token) ==
  LET bare == [World EXCEPT !.cache = << >>, !.lastTouch = << >>]
  IN RunToEnd(bare, authorize(bare, token, now, FALSE), now, FALSE).task.r

Uncached(token) == zenAuthorize(World, token, now).task.r

\* C20 (AliasSpec): on a store that answers, an authorize for a session whose
\* record is live has the validity and the user it would have had with the
\* cache and the throttle map discarded, and the ones the engine with neither
\* gives; for a session whose record is absent neither of these is valid.
CacheIsPerformanceOnly ==
  [][(res.op = "none" /\ res'.op = "authorize" /\ ~res'.failed)
     => LET token == res'.presented[1]
            a == Discarded(token)
            b == Uncached(token)
        IN /\ (Verify(token, now) # "invalid" /\ Live(store, token.sid, now))
                => /\ res'.valid = a.valid /\ res'.user = a.user
                   /\ res'.valid = b.valid /\ res'.user = b.user
           /\ token.sid \notin DOMAIN store
                => ~a.valid /\ ~b.valid]_vars

\* C21 (Spec): after an authorize that returned valid=true at time t, the
\* record of its session, when the store holds one, does not expire before
\* t + sessionDuration.
SlidesWindow ==
  (Authorized /\ res.valid /\ res.sid \in DOMAIN store)
    => store[res.sid].expiresAt >= res.t0 + SessionDuration * 1000

\* C22 (ConcSpec): two authorize calls in flight that have each issued a
\* store.touch for the same session issued them more than one throttle
\* window apart.
TouchOncePerWindow ==
  \A j, k \in DOMAIN tasks :
    (/\ j < k
     /\ tasks[j].pc = "touch"
     /\ tasks[k].pc = "touch"
     /\ tasks[j].r.sid = tasks[k].r.sid)
      => \/ tasks[j].nowc - tasks[k].nowc > ThrottleMs
         \/ tasks[k].nowc - tasks[j].nowc > ThrottleMs

\* C23 (RotSpec): an expired, well-signed token presented while the record of
\* its session is live is answered with a new token at most once.
RotatesOncePerToken ==
  \A token \in DOMAIN hist.minted : hist.minted[token] <= 1

\* C24 (RaceSpec): an authorize that starts after an authorize for the same
\* session has returned valid=false, having found no record in the store,
\* does not return valid=true.
RevocationMonotonic ==
  (Authorized /\ res.valid) => ~res.refused0

\* C25 (RaceSpec): the store never again holds a record for a session whose
\* record is gone from it, whatever authorize calls are in flight and
\* whenever they issue their touch.
NeverRecreated ==
  [][\A k \in 1..(nextSid - 1) :
       k \notin DOMAIN store => k \notin DOMAIN store']_vars

TouchedAfterDelete ==
  \E k \in DOMAIN tasks :
    /\ tasks[k].pc = "touch"
    /\ tasks[k].r.touches = 1
    /\ tasks[k].r.sid \in DOMAIN hist.deletedAt
    /\ tasks[k].nowc > hist.deletedAt[tasks[k].r.sid]
    /\ tasks[k].r.sid \notin DOMAIN store

\* C26 (RaceSpec): when a logout of a session has returned and no call is in
\* flight, neither the cache nor the throttle map holds an entry for the
\* session.
NoResidueAfterLogout ==
  Quiet => \A sid \in hist.loggedOut :
             sid \notin DOMAIN cache /\ sid \notin DOMAIN lastTouch

\* C27 (AdapterSpec): on each of the three adapters, findAllByUser(P) returns
\* the records set for P that have not expired, and after deleteByUser(P) no
\* record set for P is left.
OwnerIndexContract ==
  /\ res.op = "findAllByUser"
       => /\ res.kind = "returned"
          /\ res.mem = res.live
          /\ res.pg = res.live
          /\ res.mongo = res.live
  /\ res.op = "deleteByUser"
       => /\ \A k \in DOMAIN store.mem :
               JSONParse(store.mem[k].value).id # res.userId
          /\ \A k \in DOMAIN store.pg :
               JSONParse(store.pg[k].sess).id # res.userId
          /\ \A k \in DOMAIN store.mongo :
               JSONParse(store.mongo[k].data).id # res.userId

\* C28 (AliasSpec): the user of a valid authorize, served from the cache or
\* read from the store, is the payload that login serialized into the
\* session's record: the principal merged with the device metadata.
RoundTripsPayload ==
  (Authorized /\ res.valid /\ res.sid \in DOMAIN store)
    => /\ JSONStringify(res.user[1]) = store[res.sid].value
       /\ res.user[1] = JSONParse(store[res.sid].value)
       /\ \E id \in Ids, req \in Reqs,
             t \in {StartMs + i * TickMs : i \in 0..MaxTicks} :
            res.user[1] = FullPayload(id, req, t)

\* C29 (Spec): a cache entry is written only by a login whose store.set
\* succeeded, with the payload it stored, or by an authorize whose store.get
\* read the session's live record; a login whose store.set fails throws,
\* returns no token and leaves no cache entry and no record.
CacheHoldsStoredOnly ==
  [][/\ \A k \in DOMAIN cache' :
          (k \notin DOMAIN cache \/ cache'[k] # cache[k])
            => /\ res'.sid = k
               /\ \/ /\ res'.op = "login"
                     /\ res'.kind = "returned"
                     /\ ~res'.failed
                     /\ k \in DOMAIN store'
                     /\ store'[k].value = JSONStringify(cache'[k].value)
                  \/ /\ res'.op = "authorize"
                     /\ res'.gets = 1
                     /\ res'.live0
                     /\ cache'[k].value = JSONParse(store[k].value)
     /\ (res.op = "none" /\ res'.op = "login" /\ res'.failed)
          => /\ res'.kind = "threw"
             /\ res'.token = <<>>
             /\ res'.sid \notin DOMAIN cache'
             /\ res'.sid \notin DOMAIN store']_vars

FailedLoginPublishedNothing ==
  /\ res.op = "login"
  /\ res.failed
  /\ res.kind = "threw"
  /\ res.sid \notin DOMAIN cache
  /\ cache # << >>

====
